---- MODULE Spec2Model ----
(***************************************************************************)
(* Model of the preferential vote counter (src/src): ballot validation,    *)
(* the preference trie (BallotBox), status classification and the          *)
(* promote/runoff redistribution, driven by the counting loop of count.    *)
(*                                                                         *)
(* Candidates are the indices 0..n-1.  A ballot is a sequence of candidate *)
(* indices.  A trie node is identified by the path of candidates leading   *)
(* to it, so `nodes` is a function from the paths of the present nodes to  *)
(* their counters: nodes[<<c>>] is the top-level slot of candidate c, and  *)
(* child d of the node at path p is present iff Append(p, d) is in the     *)
(* domain.  Option<usize> is a set: {} is None and {r} is Some(r).         *)
(***************************************************************************)
EXTENDS Integers, Sequences, FiniteSets, Bags, TLC

\* Bounds of the model.
MaxCandidates == 3
MaxRecords == 3
MaxRank == 2
MaxExampleRecords == 6
MaxParseRecords == 2
MaxRankedRecords == 5
MaxLegacyRecords == 4

\* Winning thresholds tried, as exact fractions num/den in [0,1].  All are
\* dyadic, so the f64 product threshold * total_votes of line 213 is exact.
Thresholds == { [num |-> 1, den |-> 2], [num |-> 1, den |-> 1] }

VARIABLES
    ballot_box,   \* the BallotBox: eliminated, total_votes, nodes, candidates
    threshold,    \* args.threshold after adjust_threshold
    counter,      \* from_file's line counter
    pc,           \* position of count: "ingest", "record", "matched", "count", "runoff", "promote", "done", "panicked"
    log,          \* the CountStatus values status has returned so far
    ingested,     \* bag of the ballots from_file has pushed
    current_record \* from_file's raw_ballot inside an iteration: {record}, {} between iterations

vars == <<ballot_box, threshold, counter, pc, log, ingested, current_record>>

----------------------------------------------------------------------------
\* Generic helpers.

RECURSIVE SumOver(_, _)
SumOver(S, f) ==
    IF S = {} THEN 0
    ELSE LET x == CHOOSE y \in S : TRUE IN f[x] + SumOver(S \ {x}, f)

Range(s) == { s[i] : i \in 1..Len(s) }

Last(s) == s[Len(s)]

----------------------------------------------------------------------------
\* candidates.rs, ballot.rs

CandidateSet(n) == 0..(n - 1)

\* Ballot::first_pref
first_pref(ballot) == ballot[1]

\* remove_candidates without its filter: the ballot comes back as it went in.
remove_candidates_unfiltered(ballot, to_remove) ==
    IF Len(ballot) = 0 THEN {} ELSE {ballot}

\* Ballot::remove_candidates: Option<Ballot>, {} when nothing is left.
remove_candidates(ballot, to_remove) ==
    LET new_ballot == SelectSeq(ballot, LAMBDA c : c \notin Range(to_remove))
    IN  IF Len(new_ballot) = 0 THEN {} ELSE {new_ballot}

\* The pairs of a raw record collected without the preference_set test.
RECURSIVE pref_pairs_from_unchecked(_, _, _, _, _)
pref_pairs_from_unchecked(raw_ballot, n, candidate, preference_set, pairs) ==
    IF candidate >= n THEN [dup |-> FALSE, pairs |-> pairs]
    ELSE IF raw_ballot[candidate] = {}
         THEN pref_pairs_from_unchecked(raw_ballot, n, candidate + 1, preference_set, pairs)
    ELSE LET preference == CHOOSE r \in raw_ballot[candidate] : TRUE
         IN  pref_pairs_from_unchecked(raw_ballot, n, candidate + 1,
                                       preference_set \cup {preference},
                                       Append(pairs, <<preference, candidate>>))

\* The (preference, candidate) pairs of a raw record, in candidate order, or
\* dup as soon as a preference value is met a second time (lines 44-52).
RECURSIVE pref_pairs_from(_, _, _, _, _)
pref_pairs_from(raw_ballot, n, candidate, preference_set, pairs) ==
    IF candidate >= n THEN [dup |-> FALSE, pairs |-> pairs]
    ELSE IF raw_ballot[candidate] = {}
         THEN pref_pairs_from(raw_ballot, n, candidate + 1, preference_set, pairs)
    ELSE LET preference == CHOOSE r \in raw_ballot[candidate] : TRUE
         IN  IF preference \in preference_set
             THEN [dup |-> TRUE, pairs |-> pairs]
             ELSE pref_pairs_from(raw_ballot, n, candidate + 1,
                                  preference_set \cup {preference},
                                  Append(pairs, <<preference, candidate>>))

\* sort_by on the preference (line 59): insertion of each pair in turn.
RECURSIVE insert_pair(_, _)
insert_pair(sorted, pair) ==
    IF sorted = <<>> THEN <<pair>>
    ELSE IF pair[1] < sorted[1][1] THEN <<pair>> \o sorted
    ELSE <<sorted[1]>> \o insert_pair(Tail(sorted), pair)

\* The pairs left in candidate order.
sort_pairs_skipped(pairs) == pairs

RECURSIVE sort_pairs(_)
sort_pairs(pairs) ==
    IF pairs = <<>> THEN <<>>
    ELSE insert_pair(sort_pairs(SubSeq(pairs, 1, Len(pairs) - 1)), Last(pairs))

\* from_raw_ballot without the arm for no expressed preference.
from_raw_ballot_accepting_empty(raw_ballot, n) ==
    LET r == pref_pairs_from(raw_ballot, n, 0, {}, <<>>)
    IN  IF r.dup THEN [ok |-> FALSE, ballot |-> <<>>]
        ELSE LET sorted == sort_pairs(r.pairs)
             IN  [ok |-> TRUE, ballot |-> [i \in 1..Len(sorted) |-> sorted[i][2]]]

\* Ballot::from_raw_ballot: Ok(ballot) or Err(raw_ballot).
from_raw_ballot(raw_ballot, n) ==
    LET r == pref_pairs_from(raw_ballot, n, 0, {}, <<>>)
    IN  IF r.dup THEN [ok |-> FALSE, ballot |-> <<>>]
        ELSE IF Len(r.pairs) = 0 THEN [ok |-> FALSE, ballot |-> <<>>]
        ELSE LET sorted == sort_pairs(r.pairs)
             IN  [ok |-> TRUE, ballot |-> [i \in 1..Len(sorted) |-> sorted[i][2]]]

----------------------------------------------------------------------------
\* ballot_box.rs

\* BallotBoxNode::new
new_node == [total_beneath |-> 0, endings |-> 0]

\* vec![None; candidates.len()]: no node is present.
empty_trie == [p \in {} |-> new_node]

\* BallotBox::new
new_ballot_box(n) ==
    [ eliminated  |-> [c \in CandidateSet(n) |-> TRUE],
      total_votes |-> 0,
      nodes       |-> empty_trie,
      candidates  |-> n ]

\* BallotBox::eliminated: the eliminated candidates in index order.
RECURSIVE eliminated_from(_, _)
eliminated_from(box, i) ==
    IF i >= box.candidates THEN <<>>
    ELSE (IF box.eliminated[i] THEN <<i>> ELSE <<>>) \o eliminated_from(box, i + 1)

eliminated_list(box) == eliminated_from(box, 0)

\* remaining counting every candidate, eliminated or not.
remaining_all(box) == box.candidates

\* BallotBox::remaining
remaining(box) ==
    Cardinality({ c \in CandidateSet(box.candidates) : ~box.eliminated[c] })

Prefixes(ballot) == { SubSeq(ballot, 1, k) : k \in 1..Len(ballot) }

\* push_nodes adding the quantity to total_beneath at the last node only.
push_nodes_last_only(nodes, ballot, quantity) ==
    [ p \in (DOMAIN nodes) \cup Prefixes(ballot) |->
        LET old == IF p \in DOMAIN nodes THEN nodes[p] ELSE new_node
        IN  IF p = ballot
            THEN [ total_beneath |-> old.total_beneath + quantity,
                   endings |-> old.endings + quantity ]
            ELSE old ]

\* The trie after the walk of push: every node on the ballot's path exists
\* and has quantity added to total_beneath, the last one to endings too.
push_nodes(nodes, ballot, quantity) ==
    [ p \in (DOMAIN nodes) \cup Prefixes(ballot) |->
        LET old == IF p \in DOMAIN nodes THEN nodes[p] ELSE new_node
        IN  IF p \in Prefixes(ballot)
            THEN [ total_beneath |-> old.total_beneath + quantity,
                   endings |-> old.endings + (IF p = ballot THEN quantity ELSE 0) ]
            ELSE old ]

\* push without the addition of line 130.
push_uncounted(box, ballot, quantity) ==
    [ box EXCEPT
        !.eliminated  = [box.eliminated EXCEPT ![first_pref(ballot)] = FALSE],
        !.nodes       = push_nodes(box.nodes, ballot, quantity) ]

\* BallotBox::push, for a non-empty ballot.
push(box, ballot, quantity) ==
    [ box EXCEPT
        !.eliminated  = [box.eliminated EXCEPT ![first_pref(ballot)] = FALSE],
        !.total_votes = box.total_votes + quantity,
        !.nodes       = push_nodes(box.nodes, ballot, quantity) ]

\* The first-preference totals of status (lines 169-177).
totals(box) ==
    [ c \in CandidateSet(box.candidates) |->
        IF <<c>> \in DOMAIN box.nodes THEN box.nodes[<<c>>].total_beneath ELSE 0 ]

\* Iterator::max and Iterator::min as Option: {} for an empty iterator.
max_of(S) == IF S = {} THEN {} ELSE { CHOOSE m \in S : \A x \in S : x <= m }
min_of(S) == IF S = {} THEN {} ELSE { CHOOSE m \in S : \A x \in S : m <= x }

\* The folds of lines 182-204: the candidates whose total is v, in index order.
RECURSIVE attaining(_, _, _, _)
attaining(tot, n, v, candidate) ==
    IF candidate >= n THEN <<>>
    ELSE (IF tot[candidate] = v THEN <<candidate>> ELSE <<>>)
         \o attaining(tot, n, v, candidate + 1)

\* The test of line 213 with > in place of >=.
meets_threshold_strict(max, thr, total_votes) == max * thr.den > thr.num * total_votes

\* The test of line 213: max >= threshold * total_votes, in exact arithmetic.
meets_threshold(max, thr, total_votes) == max * thr.den >= thr.num * total_votes

Panic == [kind |-> "Panic", cands |-> <<>>]

\* status with min taken over all the totals, the zero ones included.
status_min_unfiltered(box, thr) ==
    LET tot    == totals(box)
        n      == box.candidates
        values == { tot[c] : c \in CandidateSet(n) }
        maxo   == max_of(values)
        mino   == min_of(values)
    IN  IF maxo = {} \/ mino = {} THEN Panic
        ELSE
        LET max     == CHOOSE m \in maxo : TRUE
            min     == CHOOSE m \in mino : TRUE
            winners == attaining(tot, n, max, 0)
            losers  == attaining(tot, n, min, 0)
        IN  IF max = 0 THEN [kind |-> "Tie", cands |-> <<>>]
            ELSE IF Len(winners) = 1 /\ meets_threshold(max, thr, box.total_votes)
                 THEN [kind |-> "Winner", cands |-> <<winners[1]>>]
            ELSE IF Len(winners) = remaining(box)
                 THEN [kind |-> "Promotion", cands |-> winners]
            ELSE [kind |-> "Runoff", cands |-> losers]

\* status whose last arm promotes the leaders in place of a runoff.
status_promoting_leaders(box, thr) ==
    LET tot    == totals(box)
        n      == box.candidates
        values == { tot[c] : c \in CandidateSet(n) }
        maxo   == max_of(values)
        mino   == min_of(values \ {0})
    IN  IF maxo = {} \/ mino = {} THEN Panic
        ELSE
        LET max     == CHOOSE m \in maxo : TRUE
            winners == attaining(tot, n, max, 0)
        IN  IF max = 0 THEN [kind |-> "Tie", cands |-> <<>>]
            ELSE IF Len(winners) = 1 /\ meets_threshold(max, thr, box.total_votes)
                 THEN [kind |-> "Winner", cands |-> <<winners[1]>>]
            ELSE [kind |-> "Promotion", cands |-> winners]

\* BallotBox::status.  The two unwraps of lines 179-180 come before the
\* classification: a None there aborts the call.
status(box, thr) ==
    LET tot    == totals(box)
        n      == box.candidates
        values == { tot[c] : c \in CandidateSet(n) }
        maxo   == max_of(values)
        mino   == min_of(values \ {0})
    IN  IF maxo = {} \/ mino = {} THEN Panic
        ELSE
        LET max     == CHOOSE m \in maxo : TRUE
            min     == CHOOSE m \in mino : TRUE
            winners == attaining(tot, n, max, 0)
            losers  == attaining(tot, n, min, 0)
        IN  IF max = 0 THEN [kind |-> "Tie", cands |-> <<>>]
            ELSE IF Len(winners) = 1 /\ meets_threshold(max, thr, box.total_votes)
                 THEN [kind |-> "Winner", cands |-> <<winners[1]>>]
            ELSE IF Len(winners) = remaining(box)
                 THEN [kind |-> "Promotion", cands |-> winners]
            ELSE [kind |-> "Runoff", cands |-> losers]

\* BallotBox::distribute on the node at `path`: the children in index order,
\* then the node's own endings.
RECURSIVE distribute(_, _, _, _, _), distribute_children(_, _, _, _, _, _)
distribute_children(nodes, n, path, current_ballot, adjusted_votes, candidate) ==
    IF candidate >= n THEN adjusted_votes
    ELSE distribute_children(nodes, n, path, current_ballot,
            IF Append(path, candidate) \in DOMAIN nodes
            THEN distribute(nodes, n, Append(path, candidate),
                            Append(current_ballot, candidate), adjusted_votes)
            ELSE adjusted_votes,
            candidate + 1)

distribute(nodes, n, path, current_ballot, adjusted_votes) ==
    LET below == distribute_children(nodes, n, path, current_ballot, adjusted_votes, 0)
    IN  IF nodes[path].endings > 0
        THEN Append(below, <<current_ballot, nodes[path].endings>>)
        ELSE below

\* mem::swap of line 247: the trie without the subtree of top-level candidate c.
detach(nodes, c) == [ p \in { q \in DOMAIN nodes : q[1] # c } |-> nodes[p] ]

\* Lines 256-258 without the assignment: nobody is marked.
mark_eliminated_never(eliminated, candidate, runoff) == eliminated

\* Lines 256-258 without the test of runoff: a promotion marks as well.
mark_eliminated_always(eliminated, candidate, runoff) ==
    [eliminated EXCEPT ![candidate] = TRUE]

\* Lines 256-258: a runoff marks the candidate eliminated, a promotion does not.
mark_eliminated(eliminated, candidate, runoff) ==
    IF runoff THEN [eliminated EXCEPT ![candidate] = TRUE] ELSE eliminated

\* The first loop of runoff_or_promote (lines 244-259) from position i of the
\* list.  st = [box, adjusted_votes, panicked].  unwrap of an empty slot
\* panics; so does the subtraction of line 251 when it would go below zero
\* (overflow checks on).
RECURSIVE detach_all(_, _, _, _)
detach_all(st, list, runoff, i) ==
    IF i > Len(list) \/ st.panicked THEN st
    ELSE
    LET candidate == list[i]
        box       == st.box
    IN  IF <<candidate>> \notin DOMAIN box.nodes
        THEN [st EXCEPT !.panicked = TRUE]
        ELSE
        LET to_distribute == box.nodes[<<candidate>>]
        IN  IF box.total_votes < to_distribute.total_beneath
            THEN [st EXCEPT !.panicked = TRUE]
            ELSE detach_all(
                   [ box |-> [ box EXCEPT
                                 !.nodes = detach(box.nodes, candidate),
                                 !.total_votes = box.total_votes - to_distribute.total_beneath,
                                 !.eliminated = mark_eliminated(box.eliminated, candidate, runoff) ],
                     adjusted_votes |-> distribute(box.nodes, box.candidates, <<candidate>>,
                                                   <<>>, st.adjusted_votes),
                     panicked |-> FALSE ],
                   list, runoff, i + 1)

\* The second loop re-inserting every fragment with quantity 1.
RECURSIVE push_all_single(_, _, _, _)
push_all_single(box, adjusted_votes, eliminated_candidates, i) ==
    IF i > Len(adjusted_votes) THEN box
    ELSE LET vote == remove_candidates(adjusted_votes[i][1], eliminated_candidates)
         IN  push_all_single(IF vote = {} THEN box
                             ELSE push(box, CHOOSE v \in vote : TRUE, 1),
                             adjusted_votes, eliminated_candidates, i + 1)

\* The second loop of runoff_or_promote (lines 264-270) from position i.
RECURSIVE push_all(_, _, _, _)
push_all(box, adjusted_votes, eliminated_candidates, i) ==
    IF i > Len(adjusted_votes) THEN box
    ELSE LET vote == remove_candidates(adjusted_votes[i][1], eliminated_candidates)
         IN  push_all(IF vote = {} THEN box
                      ELSE push(box, CHOOSE v \in vote : TRUE, adjusted_votes[i][2]),
                      adjusted_votes, eliminated_candidates, i + 1)

\* A redistribution that strips and re-inserts the fragments of each candidate
\* before it detaches the next one.
RECURSIVE interleaved_from(_, _, _, _)
interleaved_from(box, list, runoff, i) ==
    IF i > Len(list) THEN [box |-> box, panicked |-> FALSE]
    ELSE LET st == detach_all([box |-> box, adjusted_votes |-> <<>>, panicked |-> FALSE],
                              <<list[i]>>, runoff, 1)
         IN  IF st.panicked THEN [box |-> st.box, panicked |-> TRUE]
             ELSE interleaved_from(
                    push_all(st.box, st.adjusted_votes, eliminated_list(st.box), 1),
                    list, runoff, i + 1)

runoff_or_promote_interleaved(box, to_promote_or_eliminate, runoff) ==
    interleaved_from(box, to_promote_or_eliminate, runoff, 1)

\* BallotBox::runoff_or_promote: [box, panicked].
runoff_or_promote(box, to_promote_or_eliminate, runoff) ==
    LET st == detach_all([box |-> box, adjusted_votes |-> <<>>, panicked |-> FALSE],
                         to_promote_or_eliminate, runoff, 1)
    IN  IF st.panicked THEN [box |-> st.box, panicked |-> TRUE]
        ELSE [ box |-> push_all(st.box, st.adjusted_votes, eliminated_list(st.box), 1),
               panicked |-> FALSE ]

\* BallotBox::promote, BallotBox::runoff
promote(box, to_promote) == runoff_or_promote(box, to_promote, FALSE)
runoff(box, to_eliminate) == runoff_or_promote(box, to_eliminate, TRUE)

----------------------------------------------------------------------------
\* The program: from_file reads the records, then count loops on status.

Ranks == 1..MaxRank

\* The raw records a table of n columns can hold.
RawRecords(n) == [CandidateSet(n) -> {{}} \cup { {r} : r \in Ranks }]

Init ==
    /\ \E n \in 1..MaxCandidates : ballot_box = new_ballot_box(n)
    /\ threshold \in Thresholds
    /\ counter = 1
    /\ pc = "ingest"
    /\ log = <<>>
    /\ ingested = EmptyBag
    /\ current_record = {}

\* One iteration of the loop of from_file (lines 83-95) on a record.
read_record(raw_ballot) ==
    LET r == from_raw_ballot(raw_ballot, ballot_box.candidates)
    IN  /\ counter' = counter + 1
        /\ ballot_box' = IF r.ok THEN push(ballot_box, r.ballot, 1) ELSE ballot_box
        /\ ingested' = IF r.ok THEN ingested (+) SetToBag({r.ballot}) ELSE ingested
        /\ UNCHANGED <<threshold, pc, log, current_record>>

ReadRecord ==
    /\ pc = "ingest"
    /\ counter <= MaxRecords
    /\ \E raw_ballot \in RawRecords(ballot_box.candidates) : read_record(raw_ballot)

\* The reader is exhausted: from_file returns and the loop of count starts.
EndOfFile ==
    /\ pc = "ingest"
    /\ pc' = "count"
    /\ UNCHANGED <<ballot_box, threshold, counter, log, ingested, current_record>>

\* One call of status in the loop of count (main.rs lines 51-58) and the match
\* on its result.  A panic aborts the process.
\* A status that takes the votes it has counted out of total_votes.
Status_consuming ==
    /\ pc = "count"
    /\ LET s == status(ballot_box, threshold)
       IN  IF s.kind = "Panic"
           THEN pc' = "panicked" /\ log' = log
           ELSE /\ log' = Append(log, s)
                /\ pc' = CASE s.kind = "Winner" -> "done"
                           [] s.kind = "Tie" -> "done"
                           [] s.kind = "Runoff" -> "runoff"
                           [] s.kind = "Promotion" -> "promote"
    /\ ballot_box' = [ballot_box EXCEPT !.total_votes = 0]
    /\ UNCHANGED <<threshold, counter, ingested, current_record>>

Status ==
    /\ pc = "count"
    /\ LET s == status(ballot_box, threshold)
       IN  IF s.kind = "Panic"
           THEN pc' = "panicked" /\ log' = log
           ELSE /\ log' = Append(log, s)
                /\ pc' = CASE s.kind = "Winner" -> "done"
                           [] s.kind = "Tie" -> "done"
                           [] s.kind = "Runoff" -> "runoff"
                           [] s.kind = "Promotion" -> "promote"
    /\ UNCHANGED <<ballot_box, threshold, counter, ingested, current_record>>

redistribute(r) ==
    /\ ballot_box' = r.box
    /\ pc' = IF r.panicked THEN "panicked" ELSE "count"
    /\ UNCHANGED <<threshold, counter, log, ingested, current_record>>

\* Runoff(to_eliminated) => ballot_box.runoff(to_eliminated)
Runoff ==
    /\ pc = "runoff"
    /\ redistribute(runoff(ballot_box, Last(log).cands))

\* Promotion(to_promote) => ballot_box.promote(to_promote)
Promote ==
    /\ pc = "promote"
    /\ redistribute(promote(ballot_box, Last(log).cands))

Next == ReadRecord \/ EndOfFile \/ Status \/ Runoff \/ Promote

Spec == Init /\ [][Next]_vars

----------------------------------------------------------------------------
\* A second source of records: many records of few kinds.  The kinds are the
\* records of the worked examples (A,B / B,C / C,A over three candidates;
\* A / B over two), a full ranking C,B,A, an empty record and a record that
\* repeats a rank.  The threshold is the default 0.5 of main.rs line 36, or 0.

Raw(fields) == [c \in 0..(Len(fields) - 1) |-> fields[c + 1]]

ExampleRecords(n) ==
    IF n = 3
    THEN { Raw(<<{1}, {2}, {}>>), Raw(<<{}, {1}, {2}>>), Raw(<<{2}, {}, {1}>>),
           Raw(<<{3}, {2}, {1}>>), Raw(<<{}, {}, {}>>), Raw(<<{1}, {1}, {}>>) }
    ELSE IF n = 2
    THEN { Raw(<<{1}, {}>>), Raw(<<{}, {1}>>), Raw(<<{}, {}>>) }
    ELSE {}

DefaultThreshold == [num |-> 1, den |-> 2]

ExampleThresholds == { [num |-> 0, den |-> 1], DefaultThreshold }

ExampleInit ==
    /\ \E n \in {2, 3} : ballot_box = new_ballot_box(n)
    /\ threshold \in ExampleThresholds
    /\ counter = 1
    /\ pc = "ingest"
    /\ log = <<>>
    /\ ingested = EmptyBag
    /\ current_record = {}

ReadExampleRecord ==
    /\ pc = "ingest"
    /\ counter <= MaxExampleRecords
    /\ \E raw_ballot \in ExampleRecords(ballot_box.candidates) : read_record(raw_ballot)

ExampleNext == ReadExampleRecord \/ EndOfFile \/ Status \/ Runoff \/ Promote

ExampleSpec == ExampleInit /\ [][ExampleNext]_vars

----------------------------------------------------------------------------
\* Counts over three candidates whose records are all the complete rankings of
\* one, two or three of them (ranks 1..k, each once), under thresholds 0, 1/2
\* and 1: the inputs on which a count takes several rounds.

RankedRecords(n) ==
    { record \in [CandidateSet(n) -> {{}} \cup { {r} : r \in 1..n }] :
        LET expressed == { c \in CandidateSet(n) : record[c] # {} }
        IN  /\ expressed # {}
            /\ \A r \in 1..Cardinality(expressed) :
                  \E c \in expressed : record[c] = {r} }

RankedInit ==
    /\ ballot_box = new_ballot_box(3)
    /\ threshold \in ExampleThresholds \cup Thresholds
    /\ counter = 1
    /\ pc = "ingest"
    /\ log = <<>>
    /\ ingested = EmptyBag
    /\ current_record = {}

ReadRankedRecord ==
    /\ pc = "ingest"
    /\ counter <= MaxRankedRecords
    /\ \E raw_ballot \in RankedRecords(ballot_box.candidates) : read_record(raw_ballot)

RankedNext == ReadRankedRecord \/ EndOfFile \/ Status \/ Runoff \/ Promote

RankedSpec == RankedInit /\ [][RankedNext]_vars

----------------------------------------------------------------------------
\* Ingestion one record at a time, with the record in the state between the
\* reading of its fields and the call of from_raw_ballot.  A field is absent or
\* any usize, 0 included.

ParseRanks == 0..MaxRank

ParseRecords(n) == [CandidateSet(n) -> {{}} \cup { {r} : r \in ParseRanks }]

ParseInit ==
    /\ \E n \in 1..MaxCandidates : ballot_box = new_ballot_box(n)
    /\ threshold = DefaultThreshold
    /\ counter = 1
    /\ pc = "ingest"
    /\ log = <<>>
    /\ ingested = EmptyBag
    /\ current_record = {}

\* Lines 84-89: the next record's fields are collected into raw_ballot (current_record).
ReadFields ==
    /\ pc = "ingest"
    /\ counter <= MaxParseRecords
    /\ \E record \in ParseRecords(ballot_box.candidates) : current_record' = {record}
    /\ counter' = counter + 1
    /\ pc' = "record"
    /\ UNCHANGED <<ballot_box, threshold, log, ingested>>

\* The match with an Err arm that starts the ballot box afresh.
ParseRecord_resetting ==
    /\ pc = "record"
    /\ LET r == from_raw_ballot(CHOOSE record \in current_record : TRUE, ballot_box.candidates)
       IN  /\ ballot_box' = IF r.ok THEN push(ballot_box, r.ballot, 1)
                                    ELSE new_ballot_box(ballot_box.candidates)
           /\ ingested' = IF r.ok THEN ingested (+) SetToBag({r.ballot}) ELSE ingested
    /\ pc' = "matched"
    /\ UNCHANGED <<threshold, counter, log, current_record>>

\* Lines 91-94: the match on from_raw_ballot, Ok pushes and Err only reports.
ParseRecord ==
    /\ pc = "record"
    /\ LET r == from_raw_ballot(CHOOSE record \in current_record : TRUE, ballot_box.candidates)
       IN  /\ ballot_box' = IF r.ok THEN push(ballot_box, r.ballot, 1) ELSE ballot_box
           /\ ingested' = IF r.ok THEN ingested (+) SetToBag({r.ballot}) ELSE ingested
    /\ pc' = "matched"
    /\ UNCHANGED <<threshold, counter, log, current_record>>

\* Line 95: the iteration ends, the loop goes on with the next record whichever
\* arm of the match was taken.
NextRecord ==
    /\ pc = "matched"
    /\ current_record' = {}
    /\ pc' = "ingest"
    /\ UNCHANGED <<ballot_box, threshold, counter, log, ingested>>

ParseNext == ReadFields \/ ParseRecord \/ NextRecord

ParseSpec == ParseInit /\ [][ParseNext]_vars

----------------------------------------------------------------------------
\* vote-counter/src/main.rs: the earlier counter.  Its BallotBox is the trie
\* itself: ballot_box = [total, nodes, candidates], total the root's total and
\* nodes the sub-boxes by path, each [total, endings].  It keeps no eliminated
\* flags.  log holds the to_eliminate list of every runoff and the final
\* ElecResult.

\* Ballot::from_csv_row, the loop filling the vector indexed by preference:
\* none when a preference is >= num_candidates or met twice.
RECURSIVE legacy_by_preference(_, _, _, _)
legacy_by_preference(csv_row, num_candidates, candidate, ballot) ==
    IF candidate >= num_candidates THEN [none |-> FALSE, ballot |-> ballot]
    ELSE IF csv_row[candidate] = {}
         THEN legacy_by_preference(csv_row, num_candidates, candidate + 1, ballot)
    ELSE LET preference == CHOOSE r \in csv_row[candidate] : TRUE
         IN  IF preference >= num_candidates \/ ballot[preference] # {}
             THEN [none |-> TRUE, ballot |-> ballot]
             ELSE legacy_by_preference(csv_row, num_candidates, candidate + 1,
                                       [ballot EXCEPT ![preference] = {candidate}])

\* filter_map(|x| *x): the candidates of the filled preferences, in order.
RECURSIVE legacy_filter_map(_, _, _)
legacy_filter_map(ballot, num_candidates, preference) ==
    IF preference >= num_candidates THEN <<>>
    ELSE (IF ballot[preference] = {} THEN <<>>
          ELSE << CHOOSE c \in ballot[preference] : TRUE >>)
         \o legacy_filter_map(ballot, num_candidates, preference + 1)

\* Ballot::from_csv_row: Option<Ballot>.  A row with no preference gives
\* Some of the empty ballot.
legacy_from_csv_row(csv_row, num_candidates) ==
    LET r == legacy_by_preference(csv_row, num_candidates, 0,
                                  [q \in CandidateSet(num_candidates) |-> {}])
    IN  IF r.none THEN {}
        ELSE { legacy_filter_map(r.ballot, num_candidates, 0) }

\* BallotBox::empty
legacy_empty_node == [total |-> 0, endings |-> 0]

legacy_empty(children) ==
    [ total |-> 0, nodes |-> [p \in {} |-> legacy_empty_node], candidates |-> children ]

\* BallotBox::push_many: the root's total and every sub-box on the ballot's
\* path get the quantity, the last one in endings too.
legacy_push_many(box, ballot, quantity) ==
    [ box EXCEPT
        !.total = box.total + quantity,
        !.nodes = [ p \in (DOMAIN box.nodes) \cup Prefixes(ballot) |->
                      LET old == IF p \in DOMAIN box.nodes THEN box.nodes[p]
                                 ELSE legacy_empty_node
                      IN  IF p \in Prefixes(ballot)
                          THEN [ total   |-> old.total + quantity,
                                 endings |-> old.endings
                                             + (IF p = ballot THEN quantity ELSE 0) ]
                          ELSE old ] ]

\* The totals read by runoff: Some(total) as {total}, and {} for the u32::MAX
\* an absent child is given, which no total reaches.
legacy_runoff_totals(box) ==
    [ c \in CandidateSet(box.candidates) |->
        IF <<c>> \in DOMAIN box.nodes THEN { box.nodes[<<c>>].total } ELSE {} ]

\* element < min on those values.
legacy_less(element, min) ==
    /\ element # {}
    /\ min = {} \/ (CHOOSE e \in element : TRUE) < (CHOOSE m \in min : TRUE)

\* all_min: min starts at u32::MAX; an element equal to min is added, a
\* smaller one restarts the list.
RECURSIVE legacy_all_min(_, _, _, _, _)
legacy_all_min(vec, n, i, min, minimums) ==
    IF i >= n THEN minimums
    ELSE IF vec[i] = min
         THEN legacy_all_min(vec, n, i + 1, min, Append(minimums, i))
    ELSE IF legacy_less(vec[i], min)
         THEN legacy_all_min(vec, n, i + 1, vec[i], <<i>>)
    ELSE legacy_all_min(vec, n, i + 1, min, minimums)

\* BallotBox::runoff_helper on the sub-box at `path`: the children in index
\* order, then the sub-box's own endings.
RECURSIVE legacy_runoff_helper(_, _, _, _, _), legacy_runoff_children(_, _, _, _, _, _)
legacy_runoff_children(nodes, n, path, ballot, to_add, candidate) ==
    IF candidate >= n THEN to_add
    ELSE legacy_runoff_children(nodes, n, path, ballot,
            IF Append(path, candidate) \in DOMAIN nodes
            THEN legacy_runoff_helper(nodes, n, Append(path, candidate),
                                      Append(ballot, candidate), to_add)
            ELSE to_add,
            candidate + 1)

legacy_runoff_helper(nodes, n, path, ballot, to_add) ==
    LET below == legacy_runoff_children(nodes, n, path, ballot, to_add, 0)
    IN  IF nodes[path].endings # 0
        THEN Append(below, <<ballot, nodes[path].endings>>)
        ELSE below

\* The first loop of runoff from position i of to_eliminate:
\* st = [box, adjusted_votes, panicked].  unwrap of an absent child panics.
RECURSIVE legacy_detach_all(_, _, _)
legacy_detach_all(st, to_eliminate, i) ==
    IF i > Len(to_eliminate) \/ st.panicked THEN st
    ELSE
    LET candidate == to_eliminate[i]
        box       == st.box
    IN  IF <<candidate>> \notin DOMAIN box.nodes
        THEN [st EXCEPT !.panicked = TRUE]
        ELSE legacy_detach_all(
               [ box |-> [ box EXCEPT
                             !.nodes = [ p \in { q \in DOMAIN box.nodes : q[1] # candidate }
                                           |-> box.nodes[p] ],
                             !.total = box.total - box.nodes[<<candidate>>].total ],
                 adjusted_votes |-> legacy_runoff_helper(box.nodes, box.candidates,
                                                         <<candidate>>, <<>>,
                                                         st.adjusted_votes),
                 panicked |-> FALSE ],
               to_eliminate, i + 1)

\* The second loop of runoff: every adjusted vote is pushed as it is.
RECURSIVE legacy_push_all(_, _, _)
legacy_push_all(box, adjusted_votes, i) ==
    IF i > Len(adjusted_votes) THEN box
    ELSE legacy_push_all(legacy_push_many(box, adjusted_votes[i][1], adjusted_votes[i][2]),
                         adjusted_votes, i + 1)

\* What runoff eliminates: the candidates all_min gives on the totals.
legacy_to_eliminate(box) ==
    legacy_all_min(legacy_runoff_totals(box), box.candidates, 0, {}, <<>>)

\* BallotBox::runoff: [box, panicked].
legacy_runoff(box) ==
    LET st == legacy_detach_all([box |-> box, adjusted_votes |-> <<>>, panicked |-> FALSE],
                                legacy_to_eliminate(box), 1)
    IN  IF st.panicked THEN [box |-> st.box, panicked |-> TRUE]
        ELSE [box |-> legacy_push_all(st.box, st.adjusted_votes, 1), panicked |-> FALSE]

\* The totals read by winner: 0 for an absent child.
legacy_winner_totals(box) ==
    [ c \in CandidateSet(box.candidates) |->
        IF <<c>> \in DOMAIN box.nodes THEN box.nodes[<<c>>].total ELSE 0 ]

\* all_max: max starts at 0; an element equal to max is added, a larger one
\* restarts the list.
RECURSIVE legacy_all_max(_, _, _, _, _)
legacy_all_max(vec, n, i, max, maximums) ==
    IF i >= n THEN maximums
    ELSE IF vec[i] = max
         THEN legacy_all_max(vec, n, i + 1, max, Append(maximums, i))
    ELSE IF vec[i] > max
         THEN legacy_all_max(vec, n, i + 1, vec[i], <<i>>)
    ELSE legacy_all_max(vec, n, i + 1, max, maximums)

\* BallotBox::winner.  biggest_count / total_votes >= threshold: the quotient
\* of 0 by 0 is NaN and compares false; otherwise the rounded quotient is on
\* the same side of a threshold 1/2 or 1 as the exact one.
legacy_winner(box, thr) ==
    LET tot         == legacy_winner_totals(box)
        winners     == legacy_all_max(tot, box.candidates, 0, 0, <<>>)
        biggest     == tot[winners[1]]
        total_votes == SumOver(DOMAIN tot, tot)
    IN  IF total_votes # 0 /\ biggest * thr.den >= thr.num * total_votes
        THEN IF Len(winners) > 1 THEN [kind |-> "Tie", cands |-> winners]
             ELSE [kind |-> "Winner", cands |-> <<winners[1]>>]
        ELSE [kind |-> "StillCounting", cands |-> <<>>]

\* The rows of fill: a field is absent or a rank 1..n, which fill takes down
\* by one.
LegacyRows(n) ==
    [ CandidateSet(n) -> {{}} \cup { {r - 1} : r \in 1..n } ]

LegacyInit ==
    /\ ballot_box = legacy_empty(3)
    /\ threshold \in Thresholds
    /\ counter = 1
    /\ pc = "ingest"
    /\ log = <<>>
    /\ ingested = EmptyBag
    /\ current_record = {}

\* One iteration of the loop of fill.
LegacyReadRow ==
    /\ pc = "ingest"
    /\ counter <= MaxLegacyRecords
    /\ \E row \in LegacyRows(ballot_box.candidates) :
          LET b == legacy_from_csv_row(row, ballot_box.candidates)
          IN  /\ ballot_box' = IF b = {} THEN ballot_box
                               ELSE legacy_push_many(ballot_box, CHOOSE x \in b : TRUE, 1)
              /\ ingested' = IF b = {} THEN ingested ELSE ingested (+) SetToBag(b)
    /\ counter' = counter + 1
    /\ UNCHANGED <<threshold, pc, log, current_record>>

\* The records are over: fill returns the ballot box and main starts its loop.
LegacyEndOfFile ==
    /\ pc = "ingest"
    /\ pc' = "count"
    /\ UNCHANGED <<ballot_box, threshold, counter, log, ingested, current_record>>

\* main: match ballots.winner(threshold).
LegacyWinner ==
    /\ pc = "count"
    /\ LET w == legacy_winner(ballot_box, threshold)
       IN  IF w.kind = "StillCounting"
           THEN pc' = "runoff" /\ log' = log
           ELSE pc' = "done" /\ log' = Append(log, w)
    /\ UNCHANGED <<ballot_box, threshold, counter, ingested, current_record>>

\* main: ElecResult::StillCounting => ballots.runoff(candidates.qty()).
LegacyRunoff ==
    /\ pc = "runoff"
    /\ LET r == legacy_runoff(ballot_box)
       IN  /\ ballot_box' = r.box
           /\ pc' = IF r.panicked THEN "panicked" ELSE "count"
           /\ log' = Append(log, [kind |-> "Runoff", cands |-> legacy_to_eliminate(ballot_box)])
    /\ UNCHANGED <<threshold, counter, ingested, current_record>>

LegacyNext == LegacyReadRow \/ LegacyEndOfFile \/ LegacyWinner \/ LegacyRunoff

LegacySpec == LegacyInit /\ [][LegacyNext]_vars

----------------------------------------------------------------------------
\* Vocabulary of the properties, read off the state and not off the
\* operators above.

Cands == CandidateSet(ballot_box.candidates)

TopTotal(c) ==
    IF <<c>> \in DOMAIN ballot_box.nodes
    THEN ballot_box.nodes[<<c>>].total_beneath
    ELSE 0

MaxTotal == CHOOSE m \in { TopTotal(c) : c \in Cands } : \A c \in Cands : TopTotal(c) <= m

\* The candidates whose first-preference total is m.
Holders(m) == { c \in Cands : TopTotal(c) = m }

NonEliminated == { c \in Cands : ~ballot_box.eliminated[c] }

ThresholdMet(m) == m * threshold.den >= threshold.num * ballot_box.total_votes

\* The four rules of the classification, in priority order, for the maximum
\* total m and its holders h.
TieRule(m) == m = 0
WinnerRule(m, h) == ~TieRule(m) /\ Cardinality(h) = 1 /\ ThresholdMet(m)
PromotionRule(m, h) == ~TieRule(m) /\ ~WinnerRule(m, h) /\ h = NonEliminated
RunoffRule(m, h) == ~TieRule(m) /\ ~WinnerRule(m, h) /\ ~PromotionRule(m, h)

StatusNow == status(ballot_box, threshold)

Returned(kind) == log # <<>> /\ Last(log).kind = kind

IngestedQuantity == BagCardinality(ingested)

IngestedLength ==
    SumOver(DOMAIN ingested, [b \in DOMAIN ingested |-> ingested[b] * Len(b)])

\* Redistribution rounds performed so far.
Rounds == Cardinality({ i \in 1..Len(log) : log[i].kind \in {"Runoff", "Promotion"} })
         - (IF pc \in {"runoff", "promote"} THEN 1 ELSE 0)

----------------------------------------------------------------------------
\* C1: whenever status is called with every first-preference total at 0, it
\* returns Tie.
C1_ZeroTotalsGiveTie ==
    (pc = "count" /\ \A c \in Cands : TopTotal(c) = 0) => StatusNow.kind = "Tie"

\* C2: status and the runoff/promote it directs never abort, in any state the
\* counting loop reaches.
C2_ResolverNeverFails == pc # "panicked"

\* C3: the counting loop ends with Winner or Tie, after at most
\* candidate_count + (sum of the lengths of the ingested ballots) rounds.
C3_TerminatesWithinBound ==
    /\ pc # "panicked"
    /\ Rounds <= ballot_box.candidates + IngestedLength

\* The bound on the rounds alone, which every run keeps.
RoundsWithinBound == Rounds <= ballot_box.candidates + IngestedLength

\* The only abort is the one of status on totals that are all 0: promote and
\* runoff find every slot they are given present and never take total_votes
\* below 0.
PanicOnlyInStatus ==
    pc = "panicked" => (StatusNow = Panic /\ \A c \in Cands : TopTotal(c) = 0)

\* C4: status returns Winner(c) exactly when the maximum total is nonzero, c
\* alone attains it and max >= threshold * total_votes.
C4_WinnerIff ==
    LET s == StatusNow
        m == MaxTotal
        h == Holders(m)
    IN  \A c \in Cands :
            (s = [kind |-> "Winner", cands |-> <<c>>])
            <=> (m # 0 /\ h = {c} /\ ThresholdMet(m))

\* C4 witness: a unique leader whose share equals a nonzero threshold exactly
\* has been returned as Winner.
C4_Witness ==
    /\ pc = "done"
    /\ Returned("Winner")
    /\ threshold.num > 0
    /\ TopTotal(Last(log).cands[1]) * threshold.den
          = threshold.num * ballot_box.total_votes

\* C5: status returns Promotion(S) exactly when neither Tie nor Winner applies
\* and the maximum holders are the non-eliminated candidates; S is then the set
\* of non-eliminated candidates and holds every candidate with a vote.
C5_PromotionIff ==
    LET s == StatusNow
        m == MaxTotal
    IN  /\ (s.kind = "Promotion") <=> PromotionRule(m, Holders(m))
        /\ s.kind = "Promotion" =>
              /\ Range(s.cands) = NonEliminated
              /\ \A c \in Cands : TopTotal(c) > 0 => c \in Range(s.cands)

\* C5 witness: a Promotion was returned while some candidate is eliminated.
C5_Witness ==
    /\ pc = "promote"
    /\ Returned("Promotion")
    /\ NonEliminated # Cands
    /\ Cardinality(NonEliminated) >= 2

MinNonzeroHolders ==
    { c \in Cands : /\ TopTotal(c) > 0
                    /\ \A d \in Cands : TopTotal(d) > 0 => TopTotal(c) <= TopTotal(d) }

\* C6: when no other rule applies status returns Runoff(L), L the candidates
\* at the minimum nonzero total; once runoff(L) has run every candidate of L
\* is eliminated and its top-level slot is empty.
C6_RunoffLosers ==
    /\ LET s == StatusNow
           m == MaxTotal
       IN  RunoffRule(m, Holders(m)) =>
              /\ s.kind = "Runoff"
              /\ Range(s.cands) = MinNonzeroHolders
              /\ \A c \in Range(s.cands) : TopTotal(c) # 0
    /\ (pc = "count" /\ Returned("Runoff")) =>
          \A c \in Range(Last(log).cands) :
              ballot_box.eliminated[c] /\ <<c>> \notin DOMAIN ballot_box.nodes

\* C6 witness: a runoff has been applied and live votes remain.
C6_Witness ==
    /\ pc = "count"
    /\ Returned("Runoff")
    /\ ballot_box.total_votes > 0

\* The quantity of the ballots under the top-level nodes of S none of whose
\* later preferences survives the elimination flags elim.
ExhaustedQuantity(box, S, elim) ==
    LET gone == { p \in DOMAIN box.nodes :
                    p[1] \in S /\ \A i \in 2..Len(p) : elim[p[i]] }
    IN  SumOver(gone, [p \in gone |-> box.nodes[p].endings])

\* The flags once the round directed by the last status is applied: a runoff
\* adds its losers to the eliminated candidates, a promotion adds nobody.
EliminatedAfter ==
    [ c \in Cands |-> \/ ballot_box.eliminated[c]
                      \/ (pc = "runoff" /\ c \in Range(Last(log).cands)) ]

\* C7: total_votes never exceeds the quantity ingested, never grows across a
\* promote/runoff, and drops there by exactly the quantity of the exhausted
\* ballots.
C7_Conservation ==
    [][ /\ ballot_box'.total_votes <= BagCardinality(ingested')
        /\ pc \in {"runoff", "promote"} =>
              /\ ballot_box'.total_votes <= ballot_box.total_votes
              /\ ballot_box.total_votes - ballot_box'.total_votes
                   = ExhaustedQuantity(ballot_box, Range(Last(log).cands),
                                       EliminatedAfter) ]_vars

\* C7 witness: after a redistribution some ballots are exhausted and others
\* are still live.
C7_Witness ==
    /\ pc = "count"
    /\ log # <<>>
    /\ ballot_box.total_votes > 0
    /\ ballot_box.total_votes < IngestedQuantity

Children(p) == { Append(p, c) : c \in Cands } \cap DOMAIN ballot_box.nodes

\* C8: every node has total_beneath = endings + the total_beneath of its
\* present children.
C8_TrieInvariant ==
    \A p \in DOMAIN ballot_box.nodes :
        ballot_box.nodes[p].total_beneath
          = ballot_box.nodes[p].endings
            + SumOver(Children(p), [q \in Children(p) |-> ballot_box.nodes[q].total_beneath])

\* C8 witness: after a redistribution the trie has a node with a child and
\* with endings of its own.
C8_Witness ==
    /\ pc = "count"
    /\ log # <<>>
    /\ \E p \in DOMAIN ballot_box.nodes :
          Children(p) # {} /\ ballot_box.nodes[p].endings > 0

Example1 ==
    /\ ballot_box.candidates = 3
    /\ threshold = DefaultThreshold
    /\ ingested = (<<0, 1>> :> 3) @@ (<<1, 2>> :> 2) @@ (<<2, 0>> :> 1)

Example2 ==
    /\ ballot_box.candidates = 3
    /\ threshold = DefaultThreshold
    /\ ingested = (<<0, 1>> :> 2) @@ (<<1, 2>> :> 2) @@ (<<2, 0>> :> 2)

Example3 ==
    /\ ballot_box.candidates = 2
    /\ threshold = DefaultThreshold
    /\ ingested = (<<0>> :> 1) @@ (<<1>> :> 1)

\* C9: on the inputs of examples 2 and 3 the counting loop performs Promotion
\* rounds only and ends with Tie.
C9_ExamplesEndInTie ==
    ((Example2 \/ Example3) /\ pc \in {"done", "panicked"}) =>
        /\ pc = "done"
        /\ Returned("Tie")
        /\ \A i \in 1..(Len(log) - 1) : log[i].kind = "Promotion"

\* C10: on the input of example 1 the first status call sees the totals 3, 2, 1
\* of 6 votes and returns Winner(A); the count ends there, with no runoff and
\* no promotion.
C10_Example1WinnerA ==
    (Example1 /\ pc # "ingest") =>
        /\ pc \in {"count", "done"}
        /\ TopTotal(0) = 3 /\ TopTotal(1) = 2 /\ TopTotal(2) = 1
        /\ ballot_box.total_votes = 6
        /\ pc = "count" =>
              log = <<>> /\ StatusNow = [kind |-> "Winner", cands |-> <<0>>]
        /\ pc = "done" => log = << [kind |-> "Winner", cands |-> <<0>>] >>

\* C10 witness: the count of example 1 has ended.
C10_Witness == Example1 /\ pc = "done"

----------------------------------------------------------------------------
\* Vocabulary of the raw records, read off the record and not off
\* from_raw_ballot.

CurrentRecord == CHOOSE record \in current_record : TRUE

\* The candidates whose field holds a rank.
Expressed(record) == { c \in DOMAIN record : record[c] # {} }

RankOf(record, c) == CHOOSE r \in record[c] : TRUE

RepeatsRank(record) ==
    \E c, d \in Expressed(record) : c # d /\ RankOf(record, c) = RankOf(record, d)

ValidRecord(record) == Expressed(record) # {} /\ ~RepeatsRank(record)

ParsedNow == from_raw_ballot(CurrentRecord, ballot_box.candidates)

\* C11: a record that gives one rank to two candidates is rejected, whatever
\* its other fields hold.
C11_DuplicateRankRejected ==
    (pc = "record" /\ RepeatsRank(CurrentRecord)) => ~ParsedNow.ok

\* C11 witness: a record with a repeated rank and a third field with a rank of
\* its own went through the match and nothing was pushed.
C11_Witness ==
    /\ pc = "matched"
    /\ RepeatsRank(CurrentRecord)
    /\ \E c \in Expressed(CurrentRecord) :
          \A d \in Expressed(CurrentRecord) \ {c} :
              RankOf(CurrentRecord, d) # RankOf(CurrentRecord, c)
    /\ counter = 2
    /\ ingested = EmptyBag
    /\ ballot_box = new_ballot_box(ballot_box.candidates)

\* C12: a record with every field absent is rejected, and no empty ballot is
\* ever pushed during ingestion.
C12_EmptyRecordRejected ==
    /\ (pc = "record" /\ Expressed(CurrentRecord) = {}) => ~ParsedNow.ok
    /\ <<>> \notin DOMAIN ingested
    /\ \A p \in DOMAIN ballot_box.nodes : Len(p) >= 1

\* C12 witness: after a pushed ballot a record with every field absent went
\* through the match and the ballot box holds the first ballot only.
C12_Witness ==
    /\ pc = "matched"
    /\ Expressed(CurrentRecord) = {}
    /\ counter = 3
    /\ IngestedQuantity = 1
    /\ ballot_box.total_votes = 1

\* C13: a record with at least one rank and no repeated rank gives a ballot
\* holding exactly the candidates with a rank, each once, in strictly ascending
\* order of their ranks.
C13_BallotFromValidRecord ==
    (pc = "record" /\ ValidRecord(CurrentRecord)) =>
        LET r == ParsedNow
        IN  /\ r.ok
            /\ Len(r.ballot) >= 1
            /\ Len(r.ballot) = Cardinality(Expressed(CurrentRecord))
            /\ Range(r.ballot) = Expressed(CurrentRecord)
            /\ \A i, j \in 1..Len(r.ballot) :
                  i < j => RankOf(CurrentRecord, r.ballot[i]) < RankOf(CurrentRecord, r.ballot[j])

\* C13 witness: a record whose ranks skip a value and run against the column
\* order was pushed as the ballot read off in rank order.
C13_Witness ==
    /\ pc = "matched"
    /\ ValidRecord(CurrentRecord)
    /\ \E c, d \in Expressed(CurrentRecord) :
          /\ c < d
          /\ RankOf(CurrentRecord, c) > RankOf(CurrentRecord, d) + 1
          /\ \A e \in Expressed(CurrentRecord) :
                RankOf(CurrentRecord, e) # RankOf(CurrentRecord, d) + 1
          /\ <<d, c>> \in DOMAIN ingested

\* C14: the match on a rejected record leaves the ballot box as it was, the
\* match on a valid record adds 1 to total_votes, the loop goes on to the next
\* record after either, and total_votes is the number of records pushed.
C14_PartialFailure ==
    [][ /\ pc = "record" =>
              /\ pc' = "matched"
              /\ ~ValidRecord(CurrentRecord) =>
                    ballot_box' = ballot_box /\ ingested' = ingested
              /\ ValidRecord(CurrentRecord) =>
                    /\ ballot_box'.total_votes = ballot_box.total_votes + 1
                    /\ BagCardinality(ingested') = BagCardinality(ingested) + 1
        /\ pc = "matched" => (pc' = "ingest" /\ ballot_box' = ballot_box)
        /\ ballot_box'.total_votes = BagCardinality(ingested') ]_vars

\* C14 witness: the first record was rejected and the second one, valid, was
\* pushed.
C14_Witness ==
    /\ pc = "matched"
    /\ counter = 3
    /\ ValidRecord(CurrentRecord)
    /\ ballot_box.total_votes = 1
    /\ IngestedQuantity = 1

\* The positions in log of the Runoff results whose runoff has been applied.
RunoffApplied ==
    { i \in 1..Len(log) : log[i].kind = "Runoff" /\ (i < Len(log) \/ pc # "runoff") }

\* C15: a candidate eliminated by an applied runoff has its flag set and a
\* first-preference total of 0 in every later state, and is in no status
\* result returned after that runoff.
C15_EliminationPermanent ==
    \A i \in RunoffApplied :
        \A c \in Range(log[i].cands) :
            /\ ballot_box.eliminated[c]
            /\ TopTotal(c) = 0
            /\ \A j \in (i + 1)..Len(log) : c \notin Range(log[j].cands)

\* C15 witness: after a runoff a second runoff has redistributed a ballot whose
\* next preference is the candidate eliminated by the first, and status has
\* returned once more.
C15_Witness ==
    /\ Len(log) >= 3
    /\ log[1].kind = "Runoff"
    /\ log[2].kind = "Runoff"
    /\ \E b \in DOMAIN ingested :
          /\ Len(b) >= 2
          /\ b[1] \in Range(log[2].cands)
          /\ b[2] \in Range(log[1].cands)

Flat(box) ==
    LET live == { p \in DOMAIN box.nodes : box.nodes[p].endings > 0 }
    IN  [ p \in live |-> box.nodes[p].endings ]

\* What a ballot of the flat multiset becomes in a round on the candidates S
\* with the flags elim: itself when its first preference is not in S, else its
\* later preferences that are not eliminated, in their order.
Redistributed(b, S, elim) ==
    IF b[1] \notin S THEN b
    ELSE SelectSeq(Tail(b), LAMBDA c : ~elim[c])

\* The round on the flat multiset: every ballot replaced by what it becomes,
\* with its quantity, and dropped when nothing is left of it.
FlatRound(flat, S, elim) ==
    LET targets == { Redistributed(b, S, elim) : b \in DOMAIN flat } \ {<<>>}
    IN  [ t \in targets |->
            LET from == { b \in DOMAIN flat : Redistributed(b, S, elim) = t }
            IN  SumOver(from, [b \in from |-> flat[b]]) ]

\* The number of ballots of a flat multiset whose first preference is c.
FirstPreferences(flat, c) ==
    LET from == { b \in DOMAIN flat : b[1] = c }
    IN  SumOver(from, [b \in from |-> flat[b]])

\* C17: the ballot box stands for a flat multiset of live ballots: ingestion
\* builds the multiset of the pushed ballots, runoff(S) and promote(S) replace
\* every ballot whose first preference is in S by its later, non-eliminated
\* preferences with the same quantity (dropping it when none is left) and
\* leave the other ballots alone, and each top-level total is the number of
\* ballots of the multiset with that first preference.
C17_FlatRefinement ==
    [][ /\ log' = <<>> => Flat(ballot_box') = ingested'
        /\ pc \in {"runoff", "promote"} =>
              /\ pc' = "count"
              /\ Flat(ballot_box')
                   = FlatRound(Flat(ballot_box), Range(Last(log).cands), EliminatedAfter)
        /\ \A c \in Cands :
              (IF <<c>> \in DOMAIN ballot_box'.nodes
               THEN ballot_box'.nodes[<<c>>].total_beneath ELSE 0)
                = FirstPreferences(Flat(ballot_box'), c) ]_vars

\* C17 witness: a round has merged ballots that were distinct into one live
\* ballot of quantity 2 or more, dropped others, and left a ballot of three
\* preferences as it was.
C17_Witness ==
    /\ pc = "count"
    /\ log # <<>>
    /\ ballot_box.total_votes < IngestedQuantity
    /\ \E b \in DOMAIN Flat(ballot_box) :
          /\ Flat(ballot_box)[b] >= 2
          /\ \A a \in DOMAIN ingested : a = b => ingested[a] < Flat(ballot_box)[b]
    /\ \E b \in DOMAIN Flat(ballot_box) : Len(b) = 3

\* C18: total_votes is the sum of the top-level totals of all candidates, an
\* absent slot counting 0, so the share the Winner rule tests is the leader's
\* share of the live first-preference votes.
C18_TotalVotesIsSum ==
    ballot_box.total_votes = SumOver(Cands, [c \in Cands |-> TopTotal(c)])

\* C18 witness: after a round that exhausted some ballots two candidates still
\* hold votes and a third slot is absent.
C18_Witness ==
    /\ pc = "count"
    /\ log # <<>>
    /\ ballot_box.total_votes < IngestedQuantity
    /\ Cardinality({ c \in Cands : TopTotal(c) > 0 }) = 2
    /\ \E c \in Cands : <<c>> \notin DOMAIN ballot_box.nodes

\* C19: promote leaves every eliminated flag as it was, those of the promoted
\* candidates and those of the candidates already eliminated; once ingestion
\* is over only runoff changes a flag, and only from false to true.
C19_PromoteKeepsFlags ==
    [][ /\ pc = "promote" => ballot_box'.eliminated = ballot_box.eliminated
        /\ pc = "runoff" =>
              \A c \in Cands : ballot_box.eliminated[c] => ballot_box'.eliminated[c]
        /\ pc \in {"count", "done", "panicked"} =>
              ballot_box'.eliminated = ballot_box.eliminated ]_vars

\* C19 witness: after a runoff, a promotion has redistributed a ballot of a
\* promoted candidate whose next preference is the candidate the runoff
\* eliminated; the promoted candidates are not eliminated.
C19_Witness ==
    /\ pc = "count"
    /\ Len(log) = 2
    /\ log[1].kind = "Runoff"
    /\ log[2].kind = "Promotion"
    /\ \A c \in Range(log[2].cands) : ~ballot_box.eliminated[c]
    /\ \A c \in Range(log[1].cands) : ballot_box.eliminated[c]
    /\ \E b \in DOMAIN ingested :
          /\ Len(b) >= 2
          /\ b[1] \in Range(log[2].cands)
          /\ b[2] \in Range(log[1].cands)

\* C20: the set of a Runoff returned by status is non-empty, each of its
\* candidates is non-eliminated before the runoff and eliminated after it, and
\* the runoff leaves strictly fewer non-eliminated candidates than it found.
C20_RunoffShrinksRemaining ==
    [][ pc = "runoff" =>
          LET L == Range(Last(log).cands)
          IN  /\ L # {}
              /\ \A c \in L : ~ballot_box.eliminated[c] /\ ballot_box'.eliminated[c]
              /\ Cardinality({ c \in Cands : ~ballot_box'.eliminated[c] })
                   < Cardinality({ c \in Cands : ~ballot_box.eliminated[c] }) ]_vars

\* C20 witness: a runoff of two tied losers has been applied and left one
\* candidate non-eliminated.
C20_Witness ==
    /\ pc = "count"
    /\ Returned("Runoff")
    /\ Len(Last(log).cands) = 2
    /\ \A c \in Range(Last(log).cands) : ballot_box.eliminated[c]
    /\ Cardinality(NonEliminated) = 1

\* The preference length summed over the live ballots of a ballot box.
TotalLength(box) ==
    LET flat == Flat(box)
    IN  SumOver(DOMAIN flat, [b \in DOMAIN flat |-> flat[b] * Len(b)])

\* C21: a promotion round strictly decreases the preference length summed
\* over the live ballots: every live ballot has its first preference among the
\* promoted candidates and becomes a strictly shorter ballot or is dropped.
C21_PromotionShrinksBallots ==
    [][ pc = "promote" =>
          LET S    == Range(Last(log).cands)
              flat == Flat(ballot_box)
          IN  /\ flat # EmptyBag
              /\ \A b \in DOMAIN flat :
                    /\ b[1] \in S
                    /\ Len(Redistributed(b, S, ballot_box.eliminated)) < Len(b)
              /\ Flat(ballot_box') = FlatRound(flat, S, ballot_box.eliminated)
              /\ TotalLength(ballot_box') < TotalLength(ballot_box) ]_vars

\* C21 witness: a promotion has been applied to ballots of one, two and three
\* preferences; some were exhausted and others are still live.
C21_Witness ==
    /\ pc = "count"
    /\ Returned("Promotion")
    /\ ballot_box.total_votes > 0
    /\ ballot_box.total_votes < IngestedQuantity
    /\ \A k \in 1..3 : \E b \in DOMAIN ingested : Len(b) = k
    /\ TotalLength(ballot_box) < IngestedLength

\* The candidates no accepted ballot names as first preference.
DefaultEliminated == { c \in Cands : \A b \in DOMAIN ingested : b[1] # c }

\* C22: when ingestion is over a candidate is flagged eliminated exactly when
\* no accepted ballot names it first; such a candidate stays flagged and holds
\* no first-preference vote in any state of the count, the ballots that name
\* it as a lower preference notwithstanding.
C22_DefaultEliminated ==
    /\ log = <<>> =>
          \A c \in Cands : ballot_box.eliminated[c] <=> c \in DefaultEliminated
    /\ \A c \in DefaultEliminated :
          /\ ballot_box.eliminated[c]
          /\ TopTotal(c) = 0
          /\ <<c>> \notin DOMAIN ballot_box.nodes

\* C22 witness: a record was rejected, and a round has redistributed a ballot
\* whose next preference is a candidate no accepted ballot names first, with
\* live votes left.
C22_Witness ==
    /\ pc = "count"
    /\ log # <<>>
    /\ counter - 1 > IngestedQuantity
    /\ ballot_box.total_votes > 0
    /\ \E c \in DefaultEliminated :
          \E b \in DOMAIN ingested :
              /\ Len(b) >= 2
              /\ b[2] = c
              /\ b[1] \in Range(log[1].cands)

\* C23: whenever status, called by the counting loop, returns Runoff(L), no
\* candidate of L holds the maximum first-preference total.
C23_RunoffSparesLeaders ==
    pc = "count" =>
        LET s == StatusNow
        IN  s.kind = "Runoff" => Range(s.cands) \cap Holders(MaxTotal) = {}

\* The states in which a runoff takes the leaders: every candidate with votes
\* holds the same total and some candidate without votes is not eliminated.
LeadersAreLosers ==
    /\ MaxTotal > 0
    /\ MinNonzeroHolders = Holders(MaxTotal)
    /\ \E c \in NonEliminated : TopTotal(c) = 0

\* Outside those states a Runoff never names a leader.
RunoffLeadersOnlyWhenTied ==
    pc = "count" =>
        LET s == StatusNow
        IN  (s.kind = "Runoff" /\ Range(s.cands) \cap Holders(MaxTotal) # {})
              => (LeadersAreLosers /\ Range(s.cands) = Holders(MaxTotal))

\* The candidates whose top-level node is present.
Present == { c \in Cands : <<c>> \in DOMAIN ballot_box.nodes }

\* The orderings of a set of candidates.
Orderings(S) == { l \in [1..Cardinality(S) -> S] : Range(l) = S }

\* C24: on every ballot box the count reaches and every set S of candidates
\* with present top-level nodes, runoff gives the same ballot box for every
\* ordering of S, and so does promote; neither aborts.
C24_OrderIndependent ==
    pc = "count" =>
        \A S \in SUBSET Present :
            \A l1, l2 \in Orderings(S) :
                /\ runoff(ballot_box, l1) = runoff(ballot_box, l2)
                /\ promote(ballot_box, l1) = promote(ballot_box, l2)
                /\ ~runoff(ballot_box, l1).panicked
                /\ ~promote(ballot_box, l1).panicked

\* C24 witness: a ballot box with all three top-level nodes present and
\* ballots of two and three preferences, on which promoting two candidates in
\* either order moves each one's ballots under the other and gives one box.
C24_Witness ==
    /\ pc = "count"
    /\ Present = Cands
    /\ Cardinality(Cands) = 3
    /\ <<1, 2>> \in DOMAIN Flat(ballot_box)
    /\ <<2, 1, 0>> \in DOMAIN Flat(ballot_box)
    /\ promote(ballot_box, <<1, 2>>) = promote(ballot_box, <<2, 1>>)
    /\ <<1, 0>> \in DOMAIN Flat(promote(ballot_box, <<2, 1>>).box)
    /\ <<2>> \in DOMAIN Flat(promote(ballot_box, <<2, 1>>).box)

\* The top-level total of candidate c in the earlier counter.
LegacyTopTotal(c) ==
    IF <<c>> \in DOMAIN ballot_box.nodes THEN ballot_box.nodes[<<c>>].total ELSE 0

\* The candidates whose top-level sub-box a runoff of the earlier counter has
\* removed.
LegacyEliminated ==
    UNION { Range(log[i].cands) : i \in { j \in 1..Len(log) : log[j].kind = "Runoff" } }

\* C25: in the earlier counter a candidate whose top-level sub-box a runoff has
\* removed holds no first-preference vote in any later state.
C25_LegacyEliminationPermanent ==
    pc \in {"count", "runoff", "done"} =>
        \A c \in LegacyEliminated : LegacyTopTotal(c) = 0

----------------------------------------------------------------------------
TypeOK ==
    /\ pc \in {"ingest", "record", "matched", "count", "runoff", "promote", "done", "panicked"}
    /\ (pc \in {"record", "matched"}) <=> (current_record # {})
    /\ ballot_box.candidates >= 1
    /\ threshold.num <= threshold.den
    /\ \A p \in DOMAIN ballot_box.nodes : ballot_box.nodes[p].total_beneath > 0

====
